---- MODULE Spec2Model ----
(***************************************************************************)
(* Model of src/app.py (Millennium Talent Scout): the cell normaliser      *)
(* parse_field, the loader load_and_clean_data, and the script's render    *)
(* cycle (sidebar, filtering, metrics, charts, profile cards).             *)
(*                                                                         *)
(* Text is a sequence of one-character strings, so that strip, lower,      *)
(* split and the list-literal parser work on characters as Python does.    *)
(***************************************************************************)
EXTENDS Integers, Sequences, FiniteSets, TLC

(***************************************************************************)
(* Characters and the Python string methods parse_field uses.              *)
(***************************************************************************)
Uppers == <<"A","B","C","D","E","F","G","H","I","J","K","L","M",
            "N","O","P","Q","R","S","T","U","V","W","X","Y","Z">>

Lowers == <<"a","b","c","d","e","f","g","h","i","j","k","l","m",
            "n","o","p","q","r","s","t","u","v","w","x","y","z">>

\* The characters of list cells, in code-point order (str comparison order).
Alphabet == <<" ", "'", ",", "/", "[", "]">> \o Uppers \o Lowers

Ord(c) == CHOOSE i \in 1..Len(Alphabet) : Alphabet[i] = c

IsUpper(c) == \E i \in 1..26 : Uppers[i] = c

IsLetter(c) == \E i \in 1..26 : Uppers[i] = c \/ Lowers[i] = c

IsSpace(c) == c = " "

LowerChar(c) == IF IsUpper(c) THEN Lowers[CHOOSE i \in 1..26 : Uppers[i] = c] ELSE c

\* str.lower()
lower(s) == [i \in 1..Len(s) |-> LowerChar(s[i])]

\* Bind(e, F) is F(e) with e evaluated once (F may use its argument many times).
Bind(e, F(_)) == CHOOSE r \in {F(v) : v \in {e}} : TRUE

\* str.strip(): the text between the first and the last non-space character
strip(s) ==
    LET solid == {i \in 1..Len(s) : ~IsSpace(s[i])}
    IN IF solid = {} THEN <<>>
       ELSE SubSeq(s, CHOOSE i \in solid : \A j \in solid : i <= j,
                      CHOOSE i \in solid : \A j \in solid : j <= i)

\* str.split(','): the pieces between commas, empty pieces kept
split(s) ==
    LET commas == {i \in 1..Len(s) : s[i] = ","}
        \* the position of the k-th comma; 0 and Len(s) + 1 close the ends
        at(k) == IF k = 0 THEN 0
                 ELSE IF k > Cardinality(commas) THEN Len(s) + 1
                 ELSE CHOOSE i \in commas : Cardinality({j \in commas : j <= i}) = k
    IN [k \in 1..(Cardinality(commas) + 1) |-> SubSeq(s, at(k - 1) + 1, at(k) - 1)]

startswith(s, c) == s # <<>> /\ s[1] = c

endswith(s, c) == s # <<>> /\ s[Len(s)] = c

Contains(s, c) == \E i \in 1..Len(s) : s[i] = c

(***************************************************************************)
(* ast.literal_eval on the characters of Alphabet: list displays, string   *)
(* literals ('..' and '''..''', adjacent literals concatenated, u/r        *)
(* prefixes), and the names None, True, False.  Everything else in this    *)
(* alphabet (bare names, the / operator, subscripts) makes literal_eval    *)
(* raise; a top-level tuple evaluates to a non-list.                       *)
(***************************************************************************)
Quote == "'"

NullLike == {<<>>, <<"n","a","n">>, <<"n","o","n","e">>, <<"n","/","a">>}

PyNone == <<"N","o","n","e">>

PyTrue == <<"T","r","u","e">>

PyFalse == <<"F","a","l","s","e">>

\* Result of parsing one value: s = str(value), repr = repr(value),
\* items = str() of each element when the value is a list, next = index after it.
Failed == [ok |-> FALSE, kind |-> "fail", s |-> <<>>, repr |-> <<>>, items |-> <<>>, next |-> 0]

\* the first index from i on that holds no space (Len(s) + 1 when there is none)
skipws(s, i) ==
    CHOOSE j \in i..(Len(s) + 1) :
        /\ j = Len(s) + 1 \/ ~IsSpace(s[j])
        /\ \A m \in i..(j - 1) : IsSpace(s[m])

\* the index just past the identifier that starts at i
nameEnd(s, i) ==
    CHOOSE j \in i..(Len(s) + 1) :
        /\ j = Len(s) + 1 \/ ~IsLetter(s[j])
        /\ \A m \in i..(j - 1) : IsLetter(s[m])

IsTripleAt(s, i) ==
    i + 2 <= Len(s) /\ s[i] = Quote /\ s[i + 1] = Quote /\ s[i + 2] = Quote

\* repr() of a str that holds no double quote
ReprStr(t) ==
    IF Contains(t, Quote) THEN <<"\"">> \o t \o <<"\"">> ELSE <<Quote>> \o t \o <<Quote>>

StrValue(t, n) ==
    [ok |-> TRUE, kind |-> "str", s |-> t, repr |-> ReprStr(t), items |-> <<>>, next |-> n]

\* One string literal whose opening quote is at q.
StringLiteral(s, q) ==
    IF IsTripleAt(s, q)
    THEN IF \E j \in (q + 3)..Len(s) : IsTripleAt(s, j)
         THEN LET j == CHOOSE k \in (q + 3)..Len(s) :
                          IsTripleAt(s, k) /\ \A m \in (q + 3)..(k - 1) : ~IsTripleAt(s, m)
              IN StrValue(SubSeq(s, q + 3, j - 1), j + 3)
         ELSE Failed
    ELSE IF \E j \in (q + 1)..Len(s) : s[j] = Quote
         THEN LET j == CHOOSE k \in (q + 1)..Len(s) :
                          s[k] = Quote /\ \A m \in (q + 1)..(k - 1) : s[m] # Quote
              IN StrValue(SubSeq(s, q + 1, j - 1), j + 1)
         ELSE Failed

StringPrefixes == {<<"u">>, <<"U">>, <<"r">>, <<"R">>}

\* The index of the opening quote of a string literal (with optional prefix)
\* starting at i, or 0 when none starts there.
StringStart(s, i) ==
    IF i > Len(s) THEN 0
    ELSE IF s[i] = Quote THEN i
    ELSE LET e == nameEnd(s, i)
         IN IF e > i /\ e <= Len(s) /\ s[e] = Quote /\ SubSeq(s, i, e - 1) \in StringPrefixes
            THEN e ELSE 0

RECURSIVE Strings(_, _, _)
\* adjacent string literals from i on, concatenated onto acc
Strings(s, i, acc) ==
    LET q == StringStart(s, i)
    IN IF q = 0 THEN StrValue(acc, i)
       ELSE Bind(StringLiteral(s, q),
                 LAMBDA lit :
                    IF ~lit.ok THEN Failed
                    ELSE Bind([i |-> skipws(s, lit.next), acc |-> acc \o lit.s],
                              LAMBDA a : Strings(s, a.i, a.acc)))

RECURSIVE JoinUpTo(_, _)
JoinUpTo(parts, n) ==
    IF n = 0 THEN <<>>
    ELSE IF n = 1 THEN parts[1]
    ELSE JoinUpTo(parts, n - 1) \o <<",", " ">> \o parts[n]

\* ", ".join(parts)
JoinCommaSpace(parts) == JoinUpTo(parts, Len(parts))

ListValue(strs, reprs, n) ==
    Bind(<<"[">> \o JoinCommaSpace(reprs) \o <<"]">>,
         LAMBDA text : [ok |-> TRUE, kind |-> "list", s |-> text, repr |-> text,
                        items |-> strs, next |-> n])

RECURSIVE Value(_, _)
RECURSIVE Items(_, _, _, _)
\* The value starting at i (the caller has skipped whitespace).
Value(s, i) ==
    IF i > Len(s) THEN Failed
    ELSE IF s[i] = "["
         THEN Bind(skipws(s, i + 1), LAMBDA j : Items(s, j, <<>>, <<>>))
    ELSE IF StringStart(s, i) # 0 THEN Strings(s, i, <<>>)
    ELSE IF IsLetter(s[i])
         THEN LET e == nameEnd(s, i)
                  n == SubSeq(s, i, e - 1)
              IN IF n \in {PyNone, PyTrue, PyFalse}
                 THEN [ok |-> TRUE, kind |-> "const", s |-> n, repr |-> n,
                       items |-> <<>>, next |-> e]
                 ELSE Failed
    ELSE Failed

\* The rest of a list display from i on (whitespace skipped); strs and reprs are
\* str() and repr() of the elements read so far.
Items(s, i, strs, reprs) ==
    IF i > Len(s) THEN Failed
    ELSE IF s[i] = "]" THEN ListValue(strs, reprs, i + 1)
    ELSE Bind(Value(s, i),
              LAMBDA v :
                 IF ~v.ok THEN Failed
                 ELSE Bind(skipws(s, v.next),
                           LAMBDA j :
                              IF j > Len(s) THEN Failed
                              ELSE IF s[j] = ","
                                   THEN Bind([i |-> skipws(s, j + 1),
                                              strs |-> Append(strs, v.s),
                                              reprs |-> Append(reprs, v.repr)],
                                             LAMBDA a : Items(s, a.i, a.strs, a.reprs))
                              ELSE IF s[j] = "]"
                                   THEN ListValue(Append(strs, v.s), Append(reprs, v.repr), j + 1)
                              ELSE Failed))

RECURSIVE TupleRest(_, _)
\* The rest of a top-level tuple from i on, after a comma: TRUE when it is well formed.
TupleRest(s, i) ==
    IF i > Len(s) THEN TRUE
    ELSE Bind(Value(s, i),
              LAMBDA v :
                 IF ~v.ok THEN FALSE
                 ELSE Bind(skipws(s, v.next),
                           LAMBDA k :
                              IF k > Len(s) THEN TRUE
                              ELSE IF s[k] = ","
                                   THEN Bind(skipws(s, k + 1), LAMBDA n : TupleRest(s, n))
                              ELSE FALSE))

\* ast.literal_eval(x_str): the outcome is a list ("list", with items = str() of
\* each element), some other value ("other": a string, a constant or a top-level
\* tuple), or an exception ("raise").
literal_eval(s) ==
    Bind(Value(s, skipws(s, 1)),
         LAMBDA v :
            IF ~v.ok THEN [outcome |-> "raise", items |-> <<>>]
            ELSE Bind(skipws(s, v.next),
                      LAMBDA j :
                         IF j > Len(s)
                         THEN [outcome |-> IF v.kind = "list" THEN "list" ELSE "other",
                               items |-> v.items]
                         ELSE IF s[j] = "," /\ TupleRest(s, skipws(s, j + 1))
                              THEN [outcome |-> "other", items |-> <<>>]
                              ELSE [outcome |-> "raise", items |-> <<>>]))

(***************************************************************************)
(* Cells.  A cell read from the CSV is missing (NaN) or holds text.        *)
(***************************************************************************)
NaN == [na |-> TRUE, text |-> <<>>]

Text(t) == [na |-> FALSE, text |-> t]

\* pd.isna(x)
isna(x) == x.na

(***************************************************************************)
(* parse_field (app.py 62-87)                                              *)
(***************************************************************************)
NotNullItem(item) == lower(item) \notin NullLike

\* the tokens the comma and single-item branches drop: ['none', 'n/a']
NoneOrNA == {<<"n","o","n","e">>, <<"n","/","a">>}

NotNoneOrNA(item) == lower(item) \notin NoneOrNA

StripAll(parts) == [k \in 1..Len(parts) |-> strip(parts[k])]

\* lines 70-80: the try block.  done = the block returned clean_list;
\* raised = an exception left the block (the bare except swallows every one).
TryLiteralList(x_str) ==
    Bind(literal_eval(x_str),
         LAMBDA r :
            IF r.outcome = "list"
            THEN [done |-> TRUE, raised |-> FALSE,
                  value |-> SelectSeq(StripAll(r.items), NotNullItem)]
            ELSE [done |-> FALSE, raised |-> FALSE, value |-> <<>>])

\* lines 82-87: comma separated text, then the single item
CommaOrSingle(x_str) ==
    IF Contains(x_str, ",")
    THEN SelectSeq(StripAll(split(x_str)), NotNoneOrNA)
    ELSE IF NotNoneOrNA(x_str) THEN <<x_str>> ELSE <<>>

\* lines 66-87, x_str being str(x).strip()
ParseText(x_str) ==
    Bind(IF startswith(x_str, "[") /\ endswith(x_str, "]")
         THEN TryLiteralList(x_str)
         ELSE [done |-> FALSE, raised |-> FALSE, value |-> <<>>],
         LAMBDA try :
            IF try.done THEN [raised |-> FALSE, value |-> try.value]
            ELSE [raised |-> try.raised, value |-> CommaOrSingle(x_str)])

parse_field(x) ==
    IF isna(x) \/ x.text = <<>> \/ lower(x.text) \in {<<"n","a","n">>, <<"n","o","n","e">>}
    THEN [raised |-> FALSE, value |-> <<>>]
    ELSE Bind(strip(x.text), LAMBDA x_str : ParseText(x_str))

(***************************************************************************)
(* pd.to_numeric(..., errors='coerce') on an experience cell.  Numbers are *)
(* held in tenths of a year (2.5 years is 25); the cells of this model     *)
(* carry at most one fractional digit.  Text that is not a number, and a   *)
(* missing cell, give NaN.                                                 *)
(***************************************************************************)
Digits == <<"0","1","2","3","4","5","6","7","8","9">>

IsDigit(c) == \E i \in 1..10 : Digits[i] = c

DigitVal(c) == (CHOOSE i \in 1..10 : Digits[i] = c) - 1

RECURSIVE DigitsUpTo(_, _)
\* the number the first n digits of s spell
DigitsUpTo(s, n) == IF n = 0 THEN 0 ELSE 10 * DigitsUpTo(s, n - 1) + DigitVal(s[n])

DigitsVal(s) == DigitsUpTo(s, Len(s))

AllDigits(s) == s # <<>> /\ \A i \in 1..Len(s) : IsDigit(s[i])

NumNaN == [na |-> TRUE, num |-> 0]

Num(n) == [na |-> FALSE, num |-> n]

\* an unsigned decimal: D+ or D+.D
Unsigned(s) ==
    IF AllDigits(s) THEN Num(10 * DigitsVal(s))
    ELSE IF Len(s) >= 3 /\ s[Len(s) - 1] = "." /\ IsDigit(s[Len(s)])
            /\ AllDigits(SubSeq(s, 1, Len(s) - 2))
         THEN Num(10 * DigitsVal(SubSeq(s, 1, Len(s) - 2)) + DigitVal(s[Len(s)]))
         ELSE NumNaN

to_numeric(x) ==
    IF isna(x) THEN NumNaN
    ELSE IF startswith(x.text, "-")
         THEN LET u == Unsigned(Tail(x.text))
              IN IF u.na THEN NumNaN ELSE Num(0 - u.num)
         ELSE Unsigned(x.text)

\* Series.fillna(value) on one cell
fillna(x, value) == IF x.na THEN value ELSE x

\* int(v): truncation toward zero of a number held in tenths
int(v) == IF v >= 0 THEN v \div 10 ELSE 0 - ((0 - v) \div 10)

(***************************************************************************)
(* Ordering of text (Python str comparison) and sorted(set(...)).          *)
(***************************************************************************)
\* a < b: a is a proper prefix of b, or the first difference is smaller in a
StrLess(a, b) ==
    \E k \in 1..Len(b) :
        /\ \A j \in 1..(k - 1) : j <= Len(a) /\ a[j] = b[j]
        /\ k > Len(a) \/ (k <= Len(a) /\ Ord(a[k]) < Ord(b[k]))

\* list(S) left in descending order
sortedDescending(S) ==
    [k \in 1..Cardinality(S) |->
        CHOOSE v \in S : Cardinality({w \in S : StrLess(v, w)}) = k - 1]

\* sorted(list(S)) for a set S of texts: each value at the rank its order gives it
sorted(S) ==
    [k \in 1..Cardinality(S) |->
        CHOOSE v \in S : Cardinality({w \in S : StrLess(w, v)}) = k - 1]

Range(s) == {s[i] : i \in 1..Len(s)}

(***************************************************************************)
(* The source file and the column map (app.py 45-60).                      *)
(***************************************************************************)
col_map ==
    [name               |-> "Name",
     email              |-> "Email",
     phone              |-> "Phone number",
     geography          |-> "Geographies the candidate has worked in",
     strategy           |-> "Investment Approaches",
     rationale_strategy |-> "Rationale for Investment Approaches classification",
     companies          |-> "Companies that the candidate has worked in",
     sectors            |-> "Sectors that the candidate has worked in",
     experience         |-> "Total Years of Experience(Excluding Internships)",
     work_history       |-> "Work History",
     internship_history |-> "Internship History"]

Keys == DOMAIN col_map

list_cols == {col_map.geography, col_map.sectors, col_map.companies,
              col_map.work_history, col_map.internship_history}

AllColumns == {col_map[k] : k \in Keys}

\* The headers of the files the model reads: every mapped column, or one missing.
Headers == {AllColumns,
            AllColumns \ {col_map.geography},
            AllColumns \ {col_map.email},
            AllColumns \ {col_map.experience}}

\* What pd.read_csv does with the file: reads it, or raises.
FileStates == {"ok", "absent", "unreadable"}

\* The rows the model's files are made of (cells as read_csv gives them).
Row1 ==
    [name |-> Text(<<"A","n","n">>),
     email |-> Text(<<"a","@","x">>),
     phone |-> Text(<<"1">>),
     strategy |-> Text(<<"Q","u","a","n","t","i","t","a","t","i","v","e">>),
     rationale_strategy |-> Text(<<"r">>),
     experience |-> Text(<<"1">>),
     geography |-> Text(<<"U","S",","," ","U","K">>),
     sectors |-> Text(<<"[","'","T","e","c","h","'","]">>),
     companies |-> Text(<<"A","c","m","e">>),
     work_history |-> Text(<<"[","'","x","'","]">>),
     internship_history |-> NaN]

Row2 ==
    [name |-> NaN,
     email |-> NaN,
     phone |-> NaN,
     strategy |-> NaN,
     rationale_strategy |-> NaN,
     experience |-> NaN,
     geography |-> Text(<<"U","K">>),
     sectors |-> NaN,
     companies |-> NaN,
     work_history |-> NaN,
     internship_history |-> NaN]

Row3 ==
    [name |-> Text(<<"B","o","b">>),
     email |-> Text(<<"b","@","x">>),
     phone |-> Text(<<"2">>),
     strategy |-> Text(<<"M","a","c","r","o">>),
     rationale_strategy |-> Text(<<"r">>),
     experience |-> Text(<<"a","b","c">>),
     geography |-> Text(<<"U","S",","," ","U","S">>),
     sectors |-> Text(<<"T","e","c","h",","," ","E","n","e","r","g","y">>),
     companies |-> Text(<<"A","c","m","e">>),
     work_history |-> Text(<<"x",","," ","y">>),
     internship_history |-> Text(<<"[","'","z","'","]">>)]

Row4 ==
    [name |-> Text(<<"C","y">>),
     email |-> Text(<<"c","@","x">>),
     phone |-> Text(<<"3">>),
     strategy |-> Text(<<"Q","u","a","n","t","i","t","a","t","i","v","e">>),
     rationale_strategy |-> Text(<<"r">>),
     experience |-> Text(<<"2",".","5">>),
     geography |-> Text(<<"[","]">>),
     sectors |-> Text(<<"[","'","E","n","e","r","g","y","'",","," ","'","N","o","n","e","'","]">>),
     companies |-> Text(<<"A","c","m","e">>),
     work_history |-> Text(<<"x">>),
     internship_history |-> NaN]

Row5 ==
    [name |-> Text(<<"D","i">>),
     email |-> Text(<<"d","@","x">>),
     phone |-> Text(<<"4">>),
     strategy |-> Text(<<"M","a","c","r","o">>),
     rationale_strategy |-> Text(<<"r">>),
     experience |-> Text(<<"-","1">>),
     geography |-> Text(<<"u","k">>),
     sectors |-> Text(<<"T","e","c","h">>),
     companies |-> Text(<<"A","c","m","e">>),
     work_history |-> Text(<<"x">>),
     internship_history |-> NaN]

SourceRows == {Row1, Row2, Row3, Row4, Row5}

\* the number of rows of the largest file
MaxRows == 2

RECURSIVE SeqsUpTo(_, _)
\* the sequences over S of length at most n
SeqsUpTo(S, n) ==
    IF n = 0 THEN {<<>>}
    ELSE LET shorter == SeqsUpTo(S, n - 1)
         IN shorter \cup {Append(s, e) : s \in {q \in shorter : Len(q) = n - 1}, e \in S}

(***************************************************************************)
(* State.                                                                  *)
(***************************************************************************)
VARIABLES
    x, result,              \* parse_field applied on its own: the cell and the outcome
    file, header, csv,      \* the source file: read_csv's outcome, its columns, its rows
    cache,                  \* st.cache_data's entry for load_and_clean_data
    pc,                     \* where the script run is
    rerun,                  \* has the script run again after a user interaction?
    ran,                    \* the sections of the script this run has executed
    df, cols, message, exc, \* load result, st.error text, uncaught exception
    all_geos, all_sectors, strategies, slider,
    selected_geos, selected_sectors, selected_strategies, exp_range,
    filtered_df,
    metrics, sector_counts, geo_counts, cards

parseVars == <<x, result>>

sourceVars == <<file, header, csv>>

sidebarVars == <<all_geos, all_sectors, strategies, slider,
                 selected_geos, selected_sectors, selected_strategies, exp_range>>

dashVars == <<metrics, sector_counts, geo_counts, cards>>

vars == <<x, result, file, header, csv, cache, pc, rerun, ran, df, cols, message, exc,
          all_geos, all_sectors, strategies, slider,
          selected_geos, selected_sectors, selected_strategies, exp_range,
          filtered_df, metrics, sector_counts, geo_counts, cards>>

(***************************************************************************)
(* load_and_clean_data (app.py 42-110)                                     *)
(***************************************************************************)
\* pd.DataFrame()
EmptyFrame == [columns |-> {}, rows |-> <<>>]

\* DataFrame.empty
empty(d) == d.columns = {} \/ d.rows = <<>>

NoExc == [type |-> "none", line |-> 0]

\* lines 97-99: a list column of one row, parsed when the file has the column
ParsedList(hdr, row, k) ==
    IF col_map[k] \in hdr THEN parse_field(row[k]).value ELSE <<>>

\* lines 97-104 on one row
CleanRow(hdr, row) ==
    [name               |-> fillna(row.name, Text(<<"U","n","k","n","o","w","n"," ",
                                                    "C","a","n","d","i","d","a","t","e">>)),
     email              |-> row.email,
     phone              |-> row.phone,
     strategy           |-> fillna(row.strategy,
                                   Text(<<"U","n","c","l","a","s","s","i","f","i","e","d">>)),
     rationale_strategy |-> fillna(row.rationale_strategy,
                                   Text(<<"N","o"," ","r","a","t","i","o","n","a","l","e"," ",
                                          "p","r","o","v","i","d","e","d",".">>)),
     experience         |-> fillna(to_numeric(row.experience), Num(0)),
     geography          |-> ParsedList(hdr, row, "geography"),
     sectors            |-> ParsedList(hdr, row, "sectors"),
     companies          |-> ParsedList(hdr, row, "companies"),
     work_history       |-> ParsedList(hdr, row, "work_history"),
     internship_history |-> ParsedList(hdr, row, "internship_history")]

\* lines 101-104 index the frame by these columns, in this order
RequiredAt == <<[key |-> "experience", line |-> 101],
                [key |-> "name", line |-> 102],
                [key |-> "strategy", line |-> 103],
                [key |-> "rationale_strategy", line |-> 104]>>

MissingRequired(hdr) == {i \in 1..Len(RequiredAt) : col_map[RequiredAt[i].key] \notin hdr}

\* does parse_field raise on some cell of a list column the file has?
ParseRaises(hdr, rows) ==
    \E i \in 1..Len(rows) : \E k \in Keys :
        col_map[k] \in list_cols /\ col_map[k] \in hdr /\ parse_field(rows[i][k]).raised

\* The call's outcome: the returned pair (and the st.error text), or the
\* exception that leaves the function.  Only FileNotFoundError is caught.
load_and_clean_data(f, hdr, rows) ==
    IF f = "absent"
    THEN [raised |-> NoExc, df |-> EmptyFrame, cols |-> {},
          message |-> "Error: 'output.csv' not found."]
    ELSE IF f = "unreadable"
    THEN [raised |-> [type |-> "PermissionError", line |-> 45],
          df |-> EmptyFrame, cols |-> {}, message |-> ""]
    ELSE IF ParseRaises(hdr, rows)
    THEN [raised |-> [type |-> "Exception", line |-> 99],
          df |-> EmptyFrame, cols |-> {}, message |-> ""]
    ELSE IF MissingRequired(hdr) # {}
    THEN LET i == CHOOSE j \in MissingRequired(hdr) : \A m \in MissingRequired(hdr) : j <= m
         IN [raised |-> [type |-> "KeyError", line |-> RequiredAt[i].line],
             df |-> EmptyFrame, cols |-> {}, message |-> ""]
    ELSE [raised |-> NoExc,
          df |-> [columns |-> hdr, rows |-> [i \in 1..Len(rows) |-> CleanRow(hdr, rows[i])]],
          cols |-> Keys, message |-> ""]

NoEntry == [hit |-> FALSE, df |-> EmptyFrame, cols |-> {}, message |-> ""]

(***************************************************************************)
(* Sidebar (app.py 117-149)                                                *)
(***************************************************************************)
\* [item for sublist in df[col] for item in sublist], as a set
Flatten(rows, k) == UNION {Range(rows[i][k]) : i \in 1..Len(rows)}

\* lines 123, 130: sorted(list(set(...)))
FacetOptions(d, k) == sorted(Flatten(d.rows, k))

\* line 137: sorted(df[strategy].astype(str).unique().tolist())
StrategyOptions(d) == sorted({d.rows[i].strategy.text : i \in 1..Len(d.rows)})

Experiences(d) == {d.rows[i].experience.num : i \in 1..Len(d.rows)}

Minimum(S) == CHOOSE m \in S : \A n \in S : m <= n

Maximum(S) == CHOOSE m \in S : \A n \in S : n <= m

\* lines 144-146: the slider's bounds
SliderBounds(d) ==
    LET min_exp == int(Minimum(Experiences(d)))
        max_exp == int(Maximum(Experiences(d)))
    IN [min_exp |-> min_exp,
        max_exp |-> IF min_exp = max_exp THEN max_exp + 1 ELSE max_exp]

\* the values st.slider can return: a pair within the bounds
SliderValues(b) ==
    {v \in (b.min_exp..b.max_exp) \X (b.min_exp..b.max_exp) : v[1] <= v[2]}

(***************************************************************************)
(* Filtering (app.py 151-175).  A frame derived from df is the sequence of *)
(* its rows, each with the index label it had in df.                       *)
(***************************************************************************)
\* df.copy()
copy(d) == [i \in 1..Len(d.rows) |-> [index |-> i, row |-> d.rows[i]]]

\* lines 155-156
FilterStrategy(fdf, sel) ==
    IF sel # {}
    THEN LET keep(r) == r.row.strategy.text \in sel IN SelectSeq(fdf, keep)
    ELSE fdf

\* the experience filter with the upper end of the range left out
FilterExperienceExclusive(fdf, hdr, range) ==
    IF col_map.experience \in hdr
    THEN LET keep(r) == r.row.experience.num >= 10 * range[1]
                        /\ r.row.experience.num < 10 * range[2]
         IN SelectSeq(fdf, keep)
    ELSE fdf

\* lines 159-163; experience is held in tenths, the range in whole years
FilterExperience(fdf, hdr, range) ==
    IF col_map.experience \in hdr
    THEN LET keep(r) == r.row.experience.num >= 10 * range[1]
                        /\ r.row.experience.num <= 10 * range[2]
         IN SelectSeq(fdf, keep)
    ELSE fdf

\* lines 166-169 and 172-175: bool(set(x) & set(selected))
FilterOverlap(fdf, k, sel) ==
    IF sel # {}
    THEN LET keep(r) == Range(r.row[k]) \cap sel # {} IN SelectSeq(fdf, keep)
    ELSE fdf

Filtering(d, sel_strategies, range, sel_geos, sel_sectors) ==
    FilterOverlap(
        FilterOverlap(
            FilterExperience(FilterStrategy(copy(d), sel_strategies), d.columns, range),
            "geography", sel_geos),
        "sectors", sel_sectors)

(***************************************************************************)
(* Dashboard (app.py 177-259)                                              *)
(***************************************************************************)
Quantitative == <<"Q","u","a","n","t","i","t","a","t","i","v","e">>

\* lines 181-188 (the mean of experience is a display float, not held here)
Metrics(fdf) ==
    [found |-> Len(fdf),
     quant_count |-> IF fdf # <<>>
                     THEN Cardinality({i \in 1..Len(fdf) :
                                          fdf[i].row.strategy.text = Quantitative})
                     ELSE 0]

\* lines 199, 205: explode(col)[col].value_counts(): one count per list entry
value_counts(fdf, k) ==
    LET values == UNION {Range(fdf[i].row[k]) : i \in 1..Len(fdf)}
    IN [v \in values |->
          Cardinality({ij \in UNION {{<<i, j>> : j \in 1..Len(fdf[i].row[k])} : i \in 1..Len(fdf)} :
                          fdf[ij[1]].row[k][ij[2]] = v})]

\* row.get(col, default) of a scalar column
get(hdr, row, k, default) == IF col_map[k] \in hdr THEN row[k] ELSE default

\* lines 215-220: what one profile card shows
Card(hdr, r) ==
    [name      |-> r.row.name,
     strategy  |-> r.row.strategy,
     exp       |-> r.row.experience,
     email     |-> get(hdr, r.row, "email", Text(<<"N","/","A">>)),
     phone     |-> get(hdr, r.row, "phone", Text(<<"N","/","A">>)),
     rationale |-> get(hdr, r.row, "rationale_strategy",
                       Text(<<"N","o"," ","r","a","t","i","o","n","a","l","e"," ",
                              "p","r","o","v","i","d","e","d",".">>))]

\* The first column the dashboard indexes that the frame lacks, with the line
\* that raises KeyError; line 0 when every one is there.  Nothing is indexed
\* when the filtered frame is empty.
DashboardNeeds == <<[key |-> "sectors", line |-> 199, step |-> "charts"],
                    [key |-> "geography", line |-> 205, step |-> "charts"],
                    [key |-> "geography", line |-> 232, step |-> "profiles"],
                    [key |-> "sectors", line |-> 236, step |-> "profiles"],
                    [key |-> "work_history", line |-> 245, step |-> "profiles"],
                    [key |-> "internship_history", line |-> 252, step |-> "profiles"]>>

DashboardFailure(hdr, fdf) ==
    LET lacking == {i \in 1..Len(DashboardNeeds) : col_map[DashboardNeeds[i].key] \notin hdr}
    IN IF fdf = <<>> \/ lacking = {} THEN 0
       ELSE CHOOSE i \in lacking : \A j \in lacking : i <= j

(***************************************************************************)
(* The script as a state machine: one run of app.py per user interaction.  *)
(***************************************************************************)
NoBounds == [min_exp |-> 0, max_exp |-> 0]

NoMetrics == [found |-> 0, quant_count |-> 0]

\* the script's globals before a run has assigned them
FreshRun ==
    /\ ran = {}
    /\ df = EmptyFrame /\ cols = {} /\ message = "" /\ exc = NoExc
    /\ all_geos = <<>> /\ all_sectors = <<>> /\ strategies = <<>> /\ slider = NoBounds
    /\ selected_geos = {} /\ selected_sectors = {} /\ selected_strategies = {}
    /\ exp_range = <<0, 0>>
    /\ filtered_df = <<>>
    /\ metrics = NoMetrics /\ sector_counts = <<>> /\ geo_counts = <<>> /\ cards = <<>>

\* the same, as the effect of starting a run
StartRun ==
    /\ ran' = {}
    /\ df' = EmptyFrame /\ cols' = {} /\ message' = "" /\ exc' = NoExc
    /\ all_geos' = <<>> /\ all_sectors' = <<>> /\ strategies' = <<>> /\ slider' = NoBounds
    /\ selected_geos' = {} /\ selected_sectors' = {} /\ selected_strategies' = {}
    /\ exp_range' = <<0, 0>>
    /\ filtered_df' = <<>>
    /\ metrics' = NoMetrics /\ sector_counts' = <<>> /\ geo_counts' = <<>> /\ cards' = <<>>

Pending == [state |-> "pending", value |-> <<>>]

Init ==
    /\ x = NaN /\ result = Pending
    /\ file \in FileStates /\ header \in Headers
    /\ csv \in SeqsUpTo(SourceRows, MaxRows)
    /\ file # "ok" => (header = AllColumns /\ csv = <<>>)
    /\ cache = NoEntry
    /\ pc = "load" /\ rerun = FALSE
    /\ FreshRun

\* lines 112-115 with the value the call gave
AfterLoad(r) ==
    /\ df' = r.df /\ cols' = r.cols /\ message' = r.message
    /\ pc' = IF empty(r.df) THEN "stopped" ELSE "sidebar"
    /\ ran' = {"load"}
    /\ UNCHANGED <<exc, filtered_df>>
    /\ UNCHANGED <<rerun, parseVars, sourceVars, sidebarVars, dashVars>>

\* line 112, first call: the function body runs; its return value is cached,
\* an exception is not and ends the run
LoadMiss ==
    /\ pc = "load" /\ ~cache.hit
    /\ \E r \in {load_and_clean_data(file, header, csv)} :
          IF r.raised # NoExc
          THEN /\ exc' = r.raised /\ pc' = "raised" /\ ran' = {"load"}
               /\ UNCHANGED <<cache, df, cols, message, filtered_df>>
               /\ UNCHANGED <<rerun, parseVars, sourceVars, sidebarVars, dashVars>>
          ELSE /\ cache' = [hit |-> TRUE, df |-> r.df, cols |-> r.cols, message |-> r.message]
               /\ AfterLoad(r)

\* line 112, later calls: st.cache_data returns the stored value
LoadHit ==
    /\ pc = "load" /\ cache.hit
    /\ UNCHANGED cache
    /\ AfterLoad(cache)

\* lines 117-149: the options are derived and the widgets return the user's choice
Sidebar ==
    /\ pc = "sidebar"
    /\ IF col_map.geography \in df.columns
       THEN /\ all_geos' = FacetOptions(df, "geography")
            /\ selected_geos' \in SUBSET Range(all_geos')
       ELSE /\ selected_geos' = {} /\ UNCHANGED all_geos
    /\ IF col_map.sectors \in df.columns
       THEN /\ all_sectors' = FacetOptions(df, "sectors")
            /\ selected_sectors' \in SUBSET Range(all_sectors')
       ELSE /\ selected_sectors' = {} /\ UNCHANGED all_sectors
    /\ IF col_map.strategy \in df.columns
       THEN /\ strategies' = StrategyOptions(df)
            /\ selected_strategies' \in SUBSET Range(strategies')
       ELSE /\ selected_strategies' = {} /\ UNCHANGED strategies
    /\ IF col_map.experience \in df.columns
       THEN /\ slider' = SliderBounds(df)
            /\ exp_range' \in SliderValues(slider')
       ELSE /\ exp_range' = <<0, 20>> /\ UNCHANGED slider
    /\ pc' = "filter"
    /\ ran' = ran \cup {"sidebar"}
    /\ UNCHANGED <<cache, df, cols, message, exc, filtered_df>>
    /\ UNCHANGED <<rerun, parseVars, sourceVars, dashVars>>

\* the filter pass narrowing df itself instead of a copy
FilterInPlace ==
    /\ pc = "filter"
    /\ filtered_df' = Filtering(df, selected_strategies, exp_range,
                                selected_geos, selected_sectors)
    /\ df' = [df EXCEPT !.rows = [k \in 1..Len(filtered_df') |-> filtered_df'[k].row]]
    /\ pc' = "dashboard"
    /\ ran' = ran \cup {"filter"}
    /\ UNCHANGED <<cache, cols, message, exc>>
    /\ UNCHANGED <<rerun, parseVars, sourceVars, sidebarVars, dashVars>>

\* lines 151-175
Filter ==
    /\ pc = "filter"
    /\ filtered_df' = Filtering(df, selected_strategies, exp_range,
                                selected_geos, selected_sectors)
    /\ pc' = "dashboard"
    /\ ran' = ran \cup {"filter"}
    /\ UNCHANGED <<cache, df, cols, message, exc>>
    /\ UNCHANGED <<rerun, parseVars, sourceVars, sidebarVars, dashVars>>

\* lines 177-259: metrics, then the two charts and the profile cards when the
\* filtered frame has rows, else the warning
Dashboard ==
    /\ pc = "dashboard"
    /\ metrics' = Metrics(filtered_df)
    /\ LET f == DashboardFailure(df.columns, filtered_df)
           failedLine == IF f = 0 THEN 0 ELSE DashboardNeeds[f].line
           reached(line) == failedLine = 0 \/ line < failedLine
       IN /\ sector_counts' = IF filtered_df # <<>> /\ reached(199)
                              THEN value_counts(filtered_df, "sectors") ELSE <<>>
          /\ geo_counts' = IF filtered_df # <<>> /\ reached(205)
                           THEN value_counts(filtered_df, "geography") ELSE <<>>
          /\ cards' = IF filtered_df # <<>> /\ f = 0
                      THEN [i \in 1..Len(filtered_df) |-> Card(df.columns, filtered_df[i])]
                      ELSE <<>>
          /\ exc' = IF f = 0 THEN NoExc ELSE [type |-> "KeyError", line |-> failedLine]
          /\ pc' = IF f = 0 THEN "done" ELSE "raised"
          /\ ran' = ran \cup {"metrics"}
                        \cup (IF filtered_df = <<>> THEN {"warning"} ELSE {})
                        \cup (IF filtered_df # <<>> /\ reached(208) THEN {"charts"} ELSE {})
                        \cup (IF filtered_df # <<>> /\ f = 0 THEN {"profiles"} ELSE {})
    /\ UNCHANGED <<cache, df, cols, message, filtered_df>>
    /\ UNCHANGED <<rerun, parseVars, sourceVars, sidebarVars>>

\* a user interaction (or a reload) runs the script again from the top; only
\* the cache outlives the run
Rerun ==
    /\ pc \in {"done", "stopped", "raised"}
    /\ pc' = "load" /\ rerun' = TRUE
    /\ StartRun
    /\ UNCHANGED <<cache, parseVars, sourceVars>>

Next == LoadMiss \/ LoadHit \/ Sidebar \/ Filter \/ Dashboard \/ Rerun

Spec == Init /\ [][Next]_vars

(***************************************************************************)
(* parse_field on its own, over cells put together from a few pieces.      *)
(***************************************************************************)
Atoms == {<<" ">>, <<",">>, <<"[">>, <<"]">>, <<"'">>, <<"a">>,
          <<"n","a","n">>, <<"N","o","n","e">>, <<"n","/","a">>}

\* the number of pieces of the longest cell
MaxAtoms == 5

RECURSIVE ConcatUpTo(_, _)
ConcatUpTo(parts, n) == IF n = 0 THEN <<>> ELSE ConcatUpTo(parts, n - 1) \o parts[n]

Concat(parts) == ConcatUpTo(parts, Len(parts))

InitParse ==
    /\ x \in {NaN} \cup {Text(Concat(p)) : p \in SeqsUpTo(Atoms, MaxAtoms)}
    /\ result = Pending
    /\ file = "absent" /\ header = AllColumns /\ csv = <<>>
    /\ cache = NoEntry
    /\ pc = "idle" /\ rerun = FALSE
    /\ FreshRun

ApplyParseField ==
    /\ result.state = "pending"
    /\ \E r \in {parse_field(x)} :
          result' = [state |-> IF r.raised THEN "raised" ELSE "returned", value |-> r.value]
    /\ UNCHANGED <<x, sourceVars, cache, pc, rerun, ran, df, cols, message, exc, filtered_df>>
    /\ UNCHANGED <<sidebarVars, dashVars>>

NextParse == ApplyParseField

SpecParse == InitParse /\ [][NextParse]_vars

(***************************************************************************)
(* Properties.                                                             *)
(***************************************************************************)
Loaded == cache.hit /\ cols # {} /\ pc # "load"

InResult(i) == \E k \in 1..Len(filtered_df) : filtered_df[k].index = i

\* the four predicates of the filter, on record i of the loaded table
Survives(i) ==
    /\ selected_strategies = {} \/ df.rows[i].strategy.text \in selected_strategies
    /\ 10 * exp_range[1] <= df.rows[i].experience.num
    /\ df.rows[i].experience.num <= 10 * exp_range[2]
    /\ selected_geos = {} \/ Range(df.rows[i].geography) \cap selected_geos # {}
    /\ selected_sectors = {} \/ Range(df.rows[i].sectors) \cap selected_sectors # {}

\* C1: whatever the cell holds, parse_field returns without raising, and every
\* element it returns is trimmed and is not one of "", "nan", "none", "n/a"
\* (in any case).
C1_ParseFieldClean ==
    result.state # "pending" =>
        /\ result.state = "returned"
        /\ \A i \in 1..Len(result.value) :
              /\ strip(result.value[i]) = result.value[i]
              /\ lower(result.value[i]) \notin NullLike

\* C2: once the filter has run, a record of the loaded table is in the filtered
\* result exactly when it passes all four predicates (strategy membership,
\* inclusive experience range, geography overlap, sector overlap; an empty
\* selection passes everything), and it is there as it is in the table.
C2_FilterIff ==
    "filter" \in ran =>
        /\ \A i \in 1..Len(df.rows) : InResult(i) <=> Survives(i)
        /\ \A k \in 1..Len(filtered_df) :
              /\ filtered_df[k].index \in 1..Len(df.rows)
              /\ filtered_df[k].row = df.rows[filtered_df[k].index]

\* C2 witness: the filter has run with a geography selected; a record whose
\* experience equals the range's upper end is kept, and a record one year above
\* it, which overlaps the selected geographies, is dropped.
C2_Witness ==
    /\ "filter" \in ran /\ selected_geos # {}
    /\ \E i, j \in 1..Len(df.rows) :
          /\ df.rows[i].experience.num = 10 * exp_range[2] /\ InResult(i)
          /\ df.rows[j].experience.num = 10 * (exp_range[2] + 1) /\ ~InResult(j)
          /\ Range(df.rows[j].geography) \cap selected_geos # {}

\* C3: with no strategy, geography or sector selected and the slider at the
\* default it derives from the table, the filtered result is the whole table in
\* its original order.
C3_DefaultKeepsAll ==
    ( /\ "filter" \in ran
      /\ selected_strategies = {} /\ selected_geos = {} /\ selected_sectors = {}
      /\ exp_range = <<slider.min_exp, slider.max_exp>> )
    => filtered_df = copy(df)

\* C4: when the file cannot be located or read, the load returns the empty
\* table without raising, an error message is shown, and the run halts with
\* nothing but the load executed.
C4_LoadFailureHalts ==
    (file # "ok" /\ pc # "load") =>
        /\ exc = NoExc
        /\ empty(df) /\ cols = {}
        /\ message # ""
        /\ pc = "stopped" /\ ran = {"load"}

\* C5: when the file lacks the geography column (the mapped column the claim
\* singles out), no step of the run raises, the geography facet offers no
\* option and nothing is selected for it.
C5_MissingColumnTolerated ==
    (file = "ok" /\ col_map.geography \notin header) =>
        /\ exc = NoExc
        /\ all_geos = <<>> /\ selected_geos = {}

IsSortedNoDup(opts) ==
    \A i, j \in 1..Len(opts) : i < j => StrLess(opts[i], opts[j])

\* C6: once the sidebar has run, each list facet's options are exactly the
\* values found in some record's list, without duplicates, in ascending
\* code-point order.
C6_FacetOptions ==
    "sidebar" \in ran =>
        /\ col_map.geography \in df.columns =>
              /\ Range(all_geos) = Flatten(df.rows, "geography")
              /\ IsSortedNoDup(all_geos)
        /\ col_map.sectors \in df.columns =>
              /\ Range(all_sectors) = Flatten(df.rows, "sectors")
              /\ IsSortedNoDup(all_sectors)

\* C6 witness: two records share a value, one of them holds two values, and
\* the options list each value once, upper-case "UK" before "US".
C6_Witness ==
    /\ "sidebar" \in ran
    /\ all_geos = <<<<"U","K">>, <<"U","S">>>>
    /\ \E i, j \in 1..Len(df.rows) :
          /\ i # j
          /\ df.rows[i].geography = <<<<"U","S">>, <<"U","K">>>>
          /\ df.rows[j].geography = <<<<"U","K">>>>

RecordsHolding(k, v) == {i \in 1..Len(filtered_df) : v \in Range(filtered_df[i].row[k])}

\* C7: the count charted for a facet value is the number of filtered records
\* whose list holds the value, a record counting once however often its list
\* repeats the value.
C7_CountsRecordsOnce ==
    "charts" \in ran =>
        /\ \A v \in DOMAIN sector_counts :
              sector_counts[v] = Cardinality(RecordsHolding("sectors", v))
        /\ \A v \in DOMAIN geo_counts :
              geo_counts[v] = Cardinality(RecordsHolding("geography", v))

\* C8: after a successful load no record's name, email, phone, strategy or
\* rationale is null, in the table and on the profile cards.
C8_ScalarsNonNull ==
    Loaded =>
        /\ \A i \in 1..Len(df.rows) :
              /\ ~df.rows[i].name.na
              /\ ~df.rows[i].strategy.na
              /\ ~df.rows[i].rationale_strategy.na
              /\ col_map.email \in df.columns => ~df.rows[i].email.na
              /\ col_map.phone \in df.columns => ~df.rows[i].phone.na
        /\ \A k \in 1..Len(cards) :
              /\ ~cards[k].name.na /\ ~cards[k].strategy.na /\ ~cards[k].rationale.na
              /\ ~cards[k].email.na /\ ~cards[k].phone.na

\* C9: after a successful load every record's experience is a number that is
\* not negative, and it is 0 where the cell was missing or not a number.
C9_ExperienceNonNegative ==
    Loaded =>
        \A i \in 1..Len(df.rows) :
            /\ ~df.rows[i].experience.na
            /\ df.rows[i].experience.num >= 0
            /\ to_numeric(csv[i].experience).na => df.rows[i].experience.num = 0

\* C10: through any number of runs the cached table never changes, every run
\* past the load works on exactly that table, and the filtered result is the
\* filter of that table under the current selection alone.
C10_TableNeverChanges ==
    [][ /\ cache.hit => cache' = cache
        /\ (cache'.hit /\ pc' # "load") => df' = cache'.df
        /\ (cache'.hit /\ "filter" \in ran') =>
              filtered_df' = Filtering(cache'.df, selected_strategies', exp_range',
                                       selected_geos', selected_sectors') ]_vars

\* C10 witness: in a run after a user interaction the filter has dropped some
\* records and kept others, and the table is still the cached one.
C10_Witness ==
    /\ rerun /\ cache.hit /\ pc = "done"
    /\ filtered_df # <<>> /\ Len(filtered_df) < Len(df.rows)
    /\ df = cache.df

====
